---- MODULE Spec2Model ----
(***************************************************************************)
(* Ticket / Comment domain model of the support-hub application            *)
(* (tickets/models.py, tickets/forms.py): the stored rows, the referential *)
(* actions of the foreign keys, the auto_now / auto_now_add timestamps,    *)
(* form validation of a new ticket, the default ordering of a listing and  *)
(* set_ticket_updated_now, with requests that load an instance and save it *)
(* in separate steps.                                                      *)
(*                                                                         *)
(* Abstractions.  A text value is kept by the lengths that the validators  *)
(* read: a title is [pad, core] (pad = leading/trailing whitespace, core = *)
(* the rest), a rich text is [pad, tags, space, text] (whitespace at the    *)
(* ends of the string, characters inside markup tags, whitespace that the  *)
(* markup encloses and that is at the ends once the tags are removed, the  *)
(* characters between; text without markup has space = 0).  An image is    *)
(* [ext, size].  The clock is a counter that never goes back; two reads    *)
(* may return the same value.                                              *)
(***************************************************************************)
EXTENDS Integers, Sequences, FiniteSets, TLC

\* ------------------------------------------------------------ bounds
MaxTickets == 2
MaxComments == 1
MaxTime == 1

\* primary keys present in the database at start (rows of accounts.CustomUser,
\* tickets.Team, tickets.TicketCategory); keys are never reused
Users == {1, 2}
Teams == {1}
Categories == {1}
\* concurrent requests
Actors == {"editor", "commenter"}

\* ------------------------------------------------------------ constants
\* a null foreign key / no value
Null == 0

\* fault injection for C5: the choices without the closed status
STATUS_WithoutClosed == {"open", "inprogress", "onhold"}
STATUS == {"open", "inprogress", "onhold", "closed"}
TYPE == {"request", "incident"}
PRIORITY == {"low", "medium", "high"}

\* fault injection for C4: a default status other than open
StatusDefault_InProgress == "inprogress"
StatusDefault == "open"
TypeDefault == "request"
PriorityDefault == "low"

TitleMaxLength == 50
TitleMinLength == 10
DescriptionMinLength == 20
CommentMinLength == 0
ImageMaxBytes == 3 * 1024 * 1024

\* fields of a Ticket row
TicketFields ==
    {"author", "title", "description", "ticket_image", "status", "type",
     "priority", "created_on", "updated_on", "category", "assigned_team",
     "assigned_technician"}

\* fields the staff creation form accepts
FormFields == {"type", "category", "title", "description", "ticket_image"}

\* ------------------------------------------------------------ inputs
NoImage == [ext |-> "", size |-> 0]
Titles == [pad : {0, 1}, core : {0, 9, 10, 50, 51}]
RichTexts ==
    {x \in [pad : {0, 2}, tags : {0, 7}, space : {0, 2}, text : {0, 1, 19, 20}] :
        x.tags = 0 => x.space = 0}
Images ==
    {NoImage, [ext |-> "jpg", size |-> ImageMaxBytes],
     [ext |-> "png", size |-> ImageMaxBytes + 1], [ext |-> "gif", size |-> 1]}
TypeInputs == TYPE \cup {"problem"}

GoodTitle == [pad |-> 0, core |-> 10]
GoodText == [pad |-> 0, tags |-> 0, space |-> 0, text |-> 20]
\* comment bodies that are accepted: plain text, and marked-up text followed by
\* whitespace
GoodBodies ==
    {GoodText, [pad |-> 2, tags |-> 7, space |-> 0, text |-> 2],
     [pad |-> 0, tags |-> 7, space |-> 2, text |-> 5]}
\* comment bodies with nothing but markup and whitespace
BlankBodies ==
    {[pad |-> 0, tags |-> 7, space |-> 0, text |-> 0],
     [pad |-> 3, tags |-> 0, space |-> 0, text |-> 0]}
GoodInput ==
    [type |-> "request", category |-> 1, title |-> GoodTitle,
     description |-> GoodText, ticket_image |-> NoImage]
\* submitted forms: a valid form with at most one field changed
FormInputs ==
    {i \in [type : TypeInputs, category : Categories \cup {Null}, title : Titles,
            description : RichTexts, ticket_image : Images] :
        Cardinality({f \in FormFields : i[f] # GoodInput[f]}) <= 1}

VARIABLES
    users,      \* keys of the stored users
    teams,      \* keys of the stored teams
    cats,       \* keys of the stored ticket categories
    tickets,    \* stored tickets: key -> row
    comments,   \* stored comments: key -> row
    nextTicket, \* next key of the tickets table
    nextComment,\* next key of the comments table
    now,        \* the clock
    mem,        \* per request: the loaded Ticket instance, or NoInstance
    pc,         \* per request: its position
    last        \* the last operation: its arguments (id, arg), what it
                \* found (prev) and what it answered (ok)

vars ==
    <<users, teams, cats, tickets, comments, nextTicket, nextComment, now, mem,
      pc, last>>

NoInstance == [id |-> Null]
NoOp == [op |-> "none", ok |-> TRUE, id |-> Null, arg |-> Null, prev |-> Null]

Init ==
    /\ users = Users
    /\ teams = Teams
    /\ cats = Categories
    /\ tickets = <<>>
    /\ comments = <<>>
    /\ nextTicket = 1
    /\ nextComment = 1
    /\ now = 0
    /\ mem = [a \in Actors |-> NoInstance]
    /\ pc = [a \in Actors |-> "idle"]
    /\ last = NoOp

\* ------------------------------------------------------------ validation
\* forms.CharField of the ModelForm strips surrounding whitespace first
Strip(title) == title.core

\* the number of characters of a text
Length(text) == text.pad + text.tags + text.space + text.text

\* django.utils.html.strip_tags: the markup goes, whitespace stays; what the
\* markup enclosed is now at the ends of the string
strip_tags(text) ==
    [pad |-> text.pad + text.space, tags |-> 0, space |-> 0, text |-> text.text]

\* Comment.body_without_tags
body_without_tags(body) == strip_tags(body)

\* str.strip, as forms.CharField(strip=True) applies it to the description:
\* the whitespace at the ends of the string goes
StripText(text) == [text EXCEPT !.pad = 0]

\* fault injection for C10: the title without its MinLengthValidator
TitleValid_NoMinimum(title) ==
    /\ title.core > 0
    /\ title.core <= 50

\* title: blank=False, max_length=50, MinLengthValidator(10), on the cleaned value
TitleValid(title) ==
    /\ Strip(title) > 0
    /\ Strip(title) <= TitleMaxLength
    /\ Strip(title) >= TitleMinLength

\* validators.textfield_not_empty(min_length)
textfield_not_empty(text, min_length) ==
    LET value == StripText(strip_tags(text))
    IN  /\ Length(value) > 0
        /\ Length(value) >= min_length

DescriptionValid(text) == textfield_not_empty(text, DescriptionMinLength)

BodyValid(text) == textfield_not_empty(text, CommentMinLength)

\* validators.validate_image; the field is blank=True
validate_image(image) ==
    \/ image = NoImage
    \/ /\ image.ext \in {"jpg", "png"}
       /\ image.size <= ImageMaxBytes

\* StaffTicketCreationForm.is_valid(): type is a choice, category is required
\* (blank=False) and must be a stored category; title and description are
\* validated as cleaned, with the whitespace at their ends removed
FormValid(type, category, title, description, image) ==
    /\ type \in TYPE
    /\ category \in cats
    /\ TitleValid(title)
    /\ DescriptionValid(StripText(description))
    /\ validate_image(image)

\* ------------------------------------------------------------ timestamps
\* Ticket.get_time_now
get_time_now == now

\* fault injection for C3: created_on declared auto_now
CreatedOnPreSave_AutoNow(add, value, clock) == clock

\* DateTimeField(auto_now_add=True).pre_save: the clock on insert, else the
\* instance's value
CreatedOnPreSave(add, value, clock) == IF add THEN clock ELSE value

\* fault injection for C6: updated_on without auto_now
UpdatedOnPreSave_Plain(value, clock) == value

\* DateTimeField(auto_now=True).pre_save: the clock on every save of the field
UpdatedOnPreSave(value, clock) == clock

\* ------------------------------------------------------------ storage
\* fault injection for C9: a save that ignores update_fields
SaveFields_AllColumns(rows, inst, fields, clock) ==
    [k \in DOMAIN rows |->
        IF k # inst.id THEN rows[k]
        ELSE [f \in DOMAIN rows[k] |->
                IF f = "updated_on" THEN clock ELSE inst.row[f]]]

\* Model.save(update_fields=fields) of a loaded instance: an UPDATE of the
\* listed columns of the row, updated_on through its pre_save; clock is what
\* pre_save read, before the UPDATE is sent
SaveFields(rows, inst, fields, clock) ==
    [k \in DOMAIN rows |->
        IF k # inst.id THEN rows[k]
        ELSE [f \in TicketFields |->
                IF f \notin fields THEN rows[k][f]
                ELSE IF f = "updated_on"
                     THEN UpdatedOnPreSave(inst.row[f], clock)
                     ELSE IF f = "created_on"
                          THEN CreatedOnPreSave(FALSE, inst.row[f], clock)
                          ELSE inst.row[f]]]

\* the row a new Ticket gets: the form's fields, the author, the defaults;
\* created_on and updated_on read the clock one after the other
NewTicket(author, type, category, title, description, image, clock1, clock2) ==
    [author |-> author,
     title |-> Strip(title),
     description |-> StripText(description),
     ticket_image |-> image,
     status |-> StatusDefault,
     type |-> type,
     priority |-> PriorityDefault,
     created_on |-> CreatedOnPreSave(TRUE, Null, clock1),
     updated_on |-> UpdatedOnPreSave(Null, clock2),
     category |-> category,
     assigned_team |-> Null,
     assigned_technician |-> Null]

Extend(rows, key, row) ==
    [k \in DOMAIN rows \cup {key} |-> IF k = key THEN row ELSE rows[k]]

\* ------------------------------------------------------------ operations
\* the clock advances
Tick ==
    /\ now < MaxTime
    /\ now' = now + 1
    /\ UNCHANGED <<users, teams, cats, tickets, comments, nextTicket,
                   nextComment, mem, pc, last>>

\* createTicket: the creation view with StaffTicketCreationForm; d is the
\* advance of the clock between the two timestamp reads of the insert
createTicket(author, type, category, title, description, image, d) ==
    /\ author \in users
    /\ nextTicket <= MaxTickets
    /\ now + d <= MaxTime
    /\ IF FormValid(type, category, title, description, image)
       THEN /\ tickets' = Extend(tickets, nextTicket,
                                NewTicket(author, type, category, title,
                                          description, image, now, now + d))
            /\ nextTicket' = nextTicket + 1
            /\ now' = now + d
            /\ last' = [op |-> "createTicket", ok |-> TRUE, id |-> nextTicket,
                        arg |-> <<title, description>>, prev |-> Null]
       ELSE /\ d = 0
            /\ last' = [op |-> "createTicket", ok |-> FALSE, id |-> Null,
                        arg |-> <<title, description>>, prev |-> Null]
            /\ UNCHANGED <<tickets, nextTicket, now>>
    /\ UNCHANGED <<users, teams, cats, comments, nextComment, mem, pc>>

CreateAny ==
    \E author \in Users, i \in FormInputs, d \in {0, 1} :
        createTicket(author, i.type, i.category, i.title, i.description,
                     i.ticket_image, d)

\* valid forms, for the specifications that are not about validation
CreateFrom(authors, types, advances) ==
    \E author \in authors, type \in types, d \in advances :
        createTicket(author, type, GoodInput.category, GoodInput.title,
                     GoodInput.description, GoodInput.ticket_image, d)

\* Ticket.objects.get(pk=t): the instance a request works on
Instance(t) == [id |-> t, row |-> tickets[t]]

\* fault injection for C8: set_ticket_updated_now calling save() without
\* update_fields
set_ticket_updated_now_WholeRecord(rows, inst, clock) ==
    [k \in DOMAIN rows |->
        IF k # inst.id THEN rows[k] ELSE [inst.row EXCEPT !.updated_on = clock]]

\* Ticket.set_ticket_updated_now on instance inst: the rows afterwards.  clock
\* is what the call read (get_time_now, then the pre_save of updated_on; the
\* first reading is replaced by the second before anything can see it), and
\* the UPDATE that carries it is sent after the reading
set_ticket_updated_now(rows, inst, clock) ==
    SaveFields(rows, [inst EXCEPT !.row.updated_on = clock], {"updated_on"}, clock)

\* touchUpdatedTimestamp: set_ticket_updated_now on a freshly loaded ticket,
\* with no other request between its clock reading and its UPDATE
touchUpdatedTimestamp(t) ==
    /\ t \in DOMAIN tickets
    /\ tickets' = set_ticket_updated_now(tickets, Instance(t), get_time_now)
    /\ last' = [op |-> "touch", ok |-> TRUE, id |-> t, arg |-> Null,
                prev |-> tickets[t].updated_on]
    /\ UNCHANGED <<users, teams, cats, comments, nextTicket, nextComment, now,
                   mem, pc>>

\* Model.save() of a freshly loaded ticket: every column is written
saveTicket(t) ==
    /\ t \in DOMAIN tickets
    /\ tickets' = SaveFields(tickets, Instance(t), TicketFields, now)
    /\ last' = [op |-> "save", ok |-> TRUE, id |-> t, arg |-> Null,
                prev |-> tickets[t].updated_on]
    /\ UNCHANGED <<users, teams, cats, comments, nextTicket, nextComment, now,
                   mem, pc>>

\* a lifecycle operation: one field of a freshly loaded ticket set to value and
\* saved with updated_on, nothing else
SetField(name, t, field, value) ==
    /\ t \in DOMAIN tickets
    /\ tickets' = SaveFields(tickets,
                             [id |-> t,
                              row |-> [tickets[t] EXCEPT ![field] = value]],
                             {field, "updated_on"}, now)
    /\ last' = [op |-> name, ok |-> TRUE, id |-> t, arg |-> value,
                prev |-> <<tickets[t][field], tickets[t].updated_on>>]
    /\ UNCHANGED <<users, teams, cats, comments, nextTicket, nextComment, now,
                   mem, pc>>

updateStatus(t, s) ==
    /\ s \in STATUS
    /\ SetField("updateStatus", t, "status", s)

assignTeam(t, tm) ==
    /\ tm \in teams \cup {Null}
    /\ SetField("assignTeam", t, "assigned_team", tm)

assignTechnician(t, u) ==
    /\ u \in users \cup {Null}
    /\ SetField("assignTechnician", t, "assigned_technician", u)

assignCategory(t, c) ==
    /\ c \in cats \cup {Null}
    /\ SetField("assignCategory", t, "category", c)

\* a new Comment row; created_on is auto_now_add
NewComment(t, u, body, clock) ==
    [ticket |-> t, author |-> u, body |-> body,
     created_on |-> CreatedOnPreSave(TRUE, Null, clock)]

\* addComment: a valid comment is stored and the ticket is touched
addComment(u, t, body) ==
    /\ u \in users
    /\ t \in DOMAIN tickets
    /\ nextComment <= MaxComments
    /\ IF BodyValid(body)
       THEN /\ comments' = Extend(comments, nextComment, NewComment(t, u, body, now))
            /\ nextComment' = nextComment + 1
            /\ tickets' = set_ticket_updated_now(tickets, Instance(t), get_time_now)
            /\ last' = [op |-> "addComment", ok |-> TRUE, id |-> nextComment,
                        arg |-> t, prev |-> Null]
       ELSE /\ last' = [op |-> "addComment", ok |-> FALSE, id |-> Null,
                        arg |-> t, prev |-> Null]
            /\ UNCHANGED <<comments, nextComment, tickets>>
    /\ UNCHANGED <<users, teams, cats, nextTicket, now, mem, pc>>

\* the admin site shows a comment's body without its markup
showComment(c) ==
    /\ c \in DOMAIN comments
    /\ last' = [op |-> "showComment", ok |-> TRUE, id |-> c,
                arg |-> body_without_tags(comments[c].body), prev |-> Null]
    /\ UNCHANGED <<users, teams, cats, tickets, comments, nextTicket, nextComment,
                   now, mem, pc>>

\* ------------------------------------------------------------ deletion
\* Ticket.assigned_team: on_delete=SET_NULL
TeamDeleted(rows, tm) ==
    [k \in DOMAIN rows |->
        IF rows[k].assigned_team = tm
        THEN [rows[k] EXCEPT !.assigned_team = Null]
        ELSE rows[k]]

\* Ticket.category: on_delete=SET_NULL
CategoryDeleted(rows, c) ==
    [k \in DOMAIN rows |->
        IF rows[k].category = c THEN [rows[k] EXCEPT !.category = Null] ELSE rows[k]]

\* fault injection for C2: author without the cascade
AuthorCascade_Nothing(rows, u) == {}

\* Ticket.author: on_delete=CASCADE; the tickets that go with user u
AuthorCascade(rows, u) == {k \in DOMAIN rows : rows[k].author = u}

\* fault injection for C1: assigned_technician declared on_delete=CASCADE
TechnicianDeleted_Cascade(rows, u) ==
    [k \in {x \in DOMAIN rows :
                rows[x].author # u /\ rows[x].assigned_technician # u} |-> rows[k]]

\* Ticket.assigned_technician: on_delete=SET_NULL, on the tickets that stay
TechnicianDeleted(rows, u) ==
    [k \in DOMAIN rows \ AuthorCascade(rows, u) |->
        IF rows[k].assigned_technician = u
        THEN [rows[k] EXCEPT !.assigned_technician = Null]
        ELSE rows[k]]

\* Comment.ticket: on_delete=CASCADE; the comments that go with the tickets gone
TicketCascade(crows, gone) == {c \in DOMAIN crows : crows[c].ticket \in gone}

\* Comment.author: on_delete=SET_NULL, on the comments that stay
CommentAuthorDeleted(crows, gone, u) ==
    [c \in DOMAIN crows \ TicketCascade(crows, gone) |->
        IF crows[c].author = u THEN [crows[c] EXCEPT !.author = Null] ELSE crows[c]]

deleteTeam(tm) ==
    /\ tm \in teams
    /\ teams' = teams \ {tm}
    /\ tickets' = TeamDeleted(tickets, tm)
    /\ last' = [op |-> "deleteTeam", ok |-> TRUE, id |-> tm, arg |-> Null,
                prev |-> {k \in DOMAIN tickets : tickets[k].assigned_team = tm}]
    /\ UNCHANGED <<users, cats, comments, nextTicket, nextComment, now, mem, pc>>

deleteCategory(c) ==
    /\ c \in cats
    /\ cats' = cats \ {c}
    /\ tickets' = CategoryDeleted(tickets, c)
    /\ last' = [op |-> "deleteCategory", ok |-> TRUE, id |-> c, arg |-> Null,
                prev |-> {k \in DOMAIN tickets : tickets[k].category = c}]
    /\ UNCHANGED <<users, teams, comments, nextTicket, nextComment, now, mem, pc>>

deleteUser(u) ==
    /\ u \in users
    /\ users' = users \ {u}
    /\ tickets' = TechnicianDeleted(tickets, u)
    /\ comments' = CommentAuthorDeleted(comments, AuthorCascade(tickets, u), u)
    /\ last' = [op |-> "deleteUser", ok |-> TRUE, id |-> u,
                arg |-> {c \in DOMAIN comments : comments[c].author = u},
                prev |-> {k \in DOMAIN tickets :
                            tickets[k].assigned_technician = u}]
    /\ UNCHANGED <<teams, cats, nextTicket, nextComment, now, mem, pc>>

\* ------------------------------------------------------------ queries
\* fault injection for C7: ordering = ("updated_on",)
Ordered_Ascending(rows, s) ==
    \A i, j \in 1..Len(s) : i < j => rows[s[i]].updated_on <= rows[s[j]].updated_on

\* Ticket.Meta.ordering = ("-updated_on",): a sequence of keys in that order
Ordered(rows, s) ==
    \A i, j \in 1..Len(s) : i < j => rows[s[i]].updated_on >= rows[s[j]].updated_on

\* the sequences that hold every key of rows once
Orderings(rows) ==
    {s \in [1..Cardinality(DOMAIN rows) -> DOMAIN rows] :
        \A i, j \in DOMAIN s : i # j => s[i] # s[j]}

\* listTickets({}): the rows in the default ordering; the database is free in the
\* order of rows that the ordering does not tell apart
listTickets ==
    /\ \E s \in Orderings(tickets) :
          /\ Ordered(tickets, s)
          /\ last' = [op |-> "listTickets", ok |-> TRUE, id |-> Null,
                      arg |-> s, prev |-> Null]
    /\ UNCHANGED <<users, teams, cats, tickets, comments, nextTicket, nextComment,
                   now, mem, pc>>

\* ------------------------------------------------------------ requests in steps
\* a request loads the ticket it works on
Load(a, t) ==
    /\ pc[a] = "idle"
    /\ t \in DOMAIN tickets
    /\ mem' = [mem EXCEPT ![a] = Instance(t)]
    /\ pc' = [pc EXCEPT ![a] = "loaded"]
    /\ UNCHANGED <<users, teams, cats, tickets, comments, nextTicket, nextComment,
                   now, last>>

\* the request sets one field of its instance and saves it: that field with
\* updated_on, or (a view that calls save() without update_fields) every column
SaveField(a, field, value) ==
    /\ pc[a] = "loaded"
    /\ mem[a].id \in DOMAIN tickets
    /\ LET inst == [mem[a] EXCEPT !.row[field] = value]
       IN /\ \E fields \in {{field, "updated_on"}, TicketFields} :
                tickets' = SaveFields(tickets, inst, fields, now)
          /\ mem' = [mem EXCEPT ![a] = [inst EXCEPT !.row.updated_on = now]]
    /\ pc' = [pc EXCEPT ![a] = "saved"]
    /\ UNCHANGED <<users, teams, cats, comments, nextTicket, nextComment, now, last>>

SaveStatus(a, s) ==
    /\ s \in STATUS
    /\ SaveField(a, "status", s)

SaveTeam(a, tm) ==
    /\ tm \in teams \cup {Null}
    /\ SaveField(a, "assigned_team", tm)

\* the request stores a comment on the ticket it loaded
SaveComment(a, u) ==
    /\ pc[a] = "loaded"
    /\ u \in users
    /\ mem[a].id \in DOMAIN tickets
    /\ nextComment <= MaxComments
    /\ comments' = Extend(comments, nextComment,
                          NewComment(mem[a].id, u, GoodText, now))
    /\ nextComment' = nextComment + 1
    /\ pc' = [pc EXCEPT ![a] = "commented"]
    /\ UNCHANGED <<users, teams, cats, tickets, nextTicket, now, mem,
                   last>>

\* and then calls set_ticket_updated_now on its instance (a retry calls it
\* again).  The call first reads the clock into the instance; seen keeps, for
\* the record, the updated_on that was stored at that moment
TouchStamp(a) ==
    /\ pc[a] \in {"commented", "touched"}
    /\ mem[a].id \in DOMAIN tickets
    /\ mem' = [mem EXCEPT ![a] =
                  [id |-> mem[a].id,
                   row |-> [mem[a].row EXCEPT !.updated_on = get_time_now],
                   seen |-> tickets[mem[a].id].updated_on]]
    /\ pc' = [pc EXCEPT ![a] =
                 IF pc[a] = "touched" THEN "restamped" ELSE "stamped"]
    /\ UNCHANGED <<users, teams, cats, tickets, comments, nextTicket, nextComment,
                   now, last>>

\* and then its UPDATE of updated_on reaches the database, after whatever other
\* requests wrote in between; last records the stamp written, whether the call
\* was a repeated one, whether the instance's status differed from the stored
\* one, and the updated_on that was replaced
TouchWrite(a) ==
    /\ pc[a] \in {"stamped", "restamped"}
    /\ mem[a].id \in DOMAIN tickets
    /\ tickets' = set_ticket_updated_now(tickets, mem[a], mem[a].row.updated_on)
    /\ pc' = [pc EXCEPT ![a] = "touched"]
    /\ last' = [op |-> "set_ticket_updated_now", ok |-> TRUE, id |-> mem[a].id,
                arg |-> <<mem[a].row.updated_on, pc[a] = "restamped">>,
                prev |-> <<tickets[mem[a].id].status # mem[a].row.status,
                           tickets[mem[a].id].updated_on>>]
    /\ UNCHANGED <<users, teams, cats, comments, nextTicket, nextComment, now, mem>>

\* the request ends
Finish(a) ==
    /\ pc[a] \in {"saved", "touched"}
    /\ mem' = [mem EXCEPT ![a] = NoInstance]
    /\ pc' = [pc EXCEPT ![a] = "idle"]
    /\ UNCHANGED <<users, teams, cats, tickets, comments, nextTicket, nextComment,
                   now, last>>

\* ------------------------------------------------------------ specifications
\* ticket creation through the form
NextCreate == CreateAny \/ Tick

SpecCreate == Init /\ [][NextCreate]_vars

\* the timestamps of stored tickets under an advancing clock
NextLife ==
    \/ CreateFrom({1}, {TypeDefault}, {0, 1})
    \/ \E t \in 1..MaxTickets, s \in STATUS : updateStatus(t, s)
    \/ \E t \in 1..MaxTickets : touchUpdatedTimestamp(t)
    \/ \E t \in 1..MaxTickets : saveTicket(t)
    \/ Tick

SpecLife == Init /\ [][NextLife]_vars

\* the enumerated fields, with the clock standing still
NextStatus ==
    \/ CreateFrom(Users, TYPE, {0})
    \/ \E t \in 1..MaxTickets, s \in STATUS : updateStatus(t, s)
    \/ \E t \in 1..MaxTickets : saveTicket(t)

SpecStatus == Init /\ [][NextStatus]_vars

\* listings of tickets touched at different and at equal times
NextList ==
    \/ CreateFrom({1}, {TypeDefault}, {0, 1})
    \/ \E t \in 1..MaxTickets, s \in {"inprogress", "closed"} : updateStatus(t, s)
    \/ \E t \in 1..MaxTickets : touchUpdatedTimestamp(t)
    \/ listTickets
    \/ Tick

SpecList == Init /\ [][NextList]_vars

\* references of tickets and the deletion of the rows referenced
NextRefs ==
    \/ CreateFrom(Users, {TypeDefault}, {0})
    \/ \E t \in 1..MaxTickets, tm \in Teams : assignTeam(t, tm)
    \/ \E t \in 1..MaxTickets, u \in Users : assignTechnician(t, u)
    \/ \E t \in 1..MaxTickets : assignCategory(t, Null)
    \/ \E tm \in Teams : deleteTeam(tm)
    \/ \E c \in Categories : deleteCategory(c)
    \/ \E u \in Users : deleteUser(u)

SpecRefs == Init /\ [][NextRefs]_vars

\* authors, comments and the deletion of users
NextComments ==
    \/ CreateFrom(Users, {TypeDefault}, {0})
    \/ \E u \in Users, t \in 1..MaxTickets, body \in GoodBodies :
           addComment(u, t, body)
    \/ \E u \in Users, t \in 1..MaxTickets, body \in BlankBodies :
           addComment(u, t, body)
    \/ \E c \in 1..MaxComments : showComment(c)
    \/ \E t \in 1..MaxTickets, u \in Users : assignTechnician(t, u)
    \/ \E u \in Users : deleteUser(u)

SpecComments == Init /\ [][NextComments]_vars

\* concurrent requests on loaded instances
NextConc ==
    \/ CreateFrom({1}, {TypeDefault}, {0})
    \/ \E a \in Actors, t \in 1..MaxTickets : Load(a, t)
    \/ \E s \in STATUS : SaveStatus("editor", s)
    \/ \E tm \in Teams \cup {Null} : SaveTeam("editor", tm)
    \/ SaveComment("commenter", 2)
    \/ TouchStamp("commenter")
    \/ TouchWrite("commenter")
    \/ Finish("editor")

SpecConc == Init /\ [][NextConc]_vars

\* set_ticket_updated_now on an instance loaded before other requests changed
\* the ticket, under an advancing clock
NextTouch ==
    \/ CreateFrom({1}, {TypeDefault}, {0})
    \/ \E t \in 1..MaxTickets : Load("commenter", t)
    \/ \E t \in 1..MaxTickets : updateStatus(t, "closed")
    \/ SaveComment("commenter", 2)
    \/ TouchStamp("commenter")
    \/ TouchWrite("commenter")
    \/ Tick

SpecTouch == Init /\ [][NextTouch]_vars

\* ------------------------------------------------------------ properties
\* row with one reference set to null
Nulled(row, field) == [row EXCEPT ![field] = Null]

\* a step that deletes team tm, category c, user u
TeamGoes(tm) == tm \in teams /\ tm \notin teams'
CategoryGoes(c) == c \in cats /\ c \notin cats'
UserGoes(u) == u \in users /\ u \notin users'

\* deleting a team or a category: every ticket stays, the referencing ones with
\* that reference null, the others as they were
C1_TeamStep ==
    \A tm \in Teams : TeamGoes(tm) =>
        /\ DOMAIN tickets' = DOMAIN tickets
        /\ \A k \in DOMAIN tickets :
              tickets'[k] = IF tickets[k].assigned_team = tm
                            THEN Nulled(tickets[k], "assigned_team")
                            ELSE tickets[k]

C1_CategoryStep ==
    \A c \in Categories : CategoryGoes(c) =>
        /\ DOMAIN tickets' = DOMAIN tickets
        /\ \A k \in DOMAIN tickets :
              tickets'[k] = IF tickets[k].category = c
                            THEN Nulled(tickets[k], "category")
                            ELSE tickets[k]

\* C1 as stated: deleting a team, a category or the user who is a ticket's
\* assigned_technician leaves every ticket that referenced it stored, with that one
\* reference null, and the tickets that did not reference it unchanged.
C1_AsStated ==
    [][/\ C1_TeamStep
       /\ C1_CategoryStep
       /\ \A u \in Users : UserGoes(u) =>
            \A k \in DOMAIN tickets :
                /\ tickets[k].assigned_technician = u =>
                      /\ k \in DOMAIN tickets'
                      /\ tickets'[k] = Nulled(tickets[k], "assigned_technician")
                /\ (tickets[k].assigned_technician # u /\ tickets[k].author # u) =>
                      /\ k \in DOMAIN tickets'
                      /\ tickets'[k] = tickets[k]]_vars

\* C1 amended: the same for teams and categories; deleting a user leaves every
\* ticket it did not author stored, with assigned_technician null where it was that
\* user and otherwise unchanged, and removes the tickets it authored, also those it
\* was the assigned technician of.
C1_Amended ==
    [][/\ C1_TeamStep
       /\ C1_CategoryStep
       /\ \A u \in Users : UserGoes(u) =>
            /\ DOMAIN tickets' = {k \in DOMAIN tickets : tickets[k].author # u}
            /\ \A k \in DOMAIN tickets' :
                  tickets'[k] = IF tickets[k].assigned_technician = u
                                THEN Nulled(tickets[k], "assigned_technician")
                                ELSE tickets[k]]_vars

\* a user was deleted who was the technician of a ticket of another author, and
\* that ticket is stored with no technician
C1_Witness ==
    /\ last.op = "deleteUser"
    /\ \E k \in last.prev :
          /\ k \in DOMAIN tickets
          /\ tickets[k].assigned_technician = Null
          /\ tickets[k].author \in users

\* every stored ticket has a stored author, every stored comment a stored ticket
C2_Inv ==
    /\ \A k \in DOMAIN tickets : tickets[k].author \in users
    /\ \A c \in DOMAIN comments : comments[c].ticket \in DOMAIN tickets

\* deleting a user removes the tickets it authored and the comments on them; the
\* other comments stay, those it wrote with author null
C2_Step ==
    \A u \in Users : UserGoes(u) =>
        /\ DOMAIN tickets' = {k \in DOMAIN tickets : tickets[k].author # u}
        /\ DOMAIN comments' =
              {c \in DOMAIN comments : tickets[comments[c].ticket].author # u}
        /\ \A c \in DOMAIN comments' :
              comments'[c] = IF comments[c].author = u
                             THEN [comments[c] EXCEPT !.author = Null]
                             ELSE comments[c]

\* C2: in every reachable state every ticket's author and every comment's ticket
\* are stored, and deleting a user cascades to its tickets and their comments while
\* its comments on other authors' tickets stay with author null.
C2_Theorem == []C2_Inv /\ [][C2_Step]_vars

\* a user was deleted: a ticket went with it, and a comment it wrote on another
\* author's ticket is stored with author null
C2_Witness ==
    /\ last.op = "deleteUser"
    /\ Cardinality(DOMAIN tickets) < nextTicket - 1
    /\ \E c \in last.arg : c \in DOMAIN comments /\ comments[c].author = Null

\* C3: every stored ticket has updated_on >= created_on, and created_on of a ticket
\* never changes while the ticket is stored.
C3_Theorem ==
    /\ [](\A k \in DOMAIN tickets : tickets[k].updated_on >= tickets[k].created_on)
    /\ [][\A k \in DOMAIN tickets \cap DOMAIN tickets' :
            tickets'[k].created_on = tickets[k].created_on]_vars

\* a whole-record save has moved a ticket's updated_on past its created_on
C3_Witness ==
    /\ last.op = "save"
    /\ tickets[last.id].updated_on > tickets[last.id].created_on
    /\ tickets[last.id].updated_on > last.prev

\* what C4 says of a new row apart from the timestamps
C4_Defaults(row) ==
    /\ row.status = "open"
    /\ row.priority = "low"
    /\ row.assigned_team = Null
    /\ row.assigned_technician = Null

\* C4 as stated: a ticket created through the form has status open, priority low,
\* no team, no technician and created_on equal to updated_on.
C4_AsStated ==
    [][\A k \in DOMAIN tickets' \ DOMAIN tickets :
         /\ C4_Defaults(tickets'[k])
         /\ tickets'[k].created_on = tickets'[k].updated_on]_vars

\* C4 amended: a ticket created through the form has status open, priority low, no
\* team, no technician, and created_on <= updated_on, both read from the clock
\* during the creation.
C4_Amended ==
    [][\A k \in DOMAIN tickets' \ DOMAIN tickets :
         /\ C4_Defaults(tickets'[k])
         /\ now <= tickets'[k].created_on
         /\ tickets'[k].created_on <= tickets'[k].updated_on
         /\ tickets'[k].updated_on <= now']_vars

\* a ticket was created while the clock moved between its two timestamps
C4_Witness ==
    /\ last.op = "createTicket"
    /\ last.ok
    /\ C4_Defaults(tickets[last.id])
    /\ tickets[last.id].created_on < tickets[last.id].updated_on

\* C5: status, type and priority of every stored ticket are in their enumerations,
\* updateStatus of a stored ticket is possible to each of the four statuses whatever
\* the status is, and it stores the status asked for.
C5_Theorem ==
    /\ \A k \in DOMAIN tickets :
          /\ tickets[k].status \in {"open", "inprogress", "onhold", "closed"}
          /\ tickets[k].type \in {"request", "incident"}
          /\ tickets[k].priority \in {"low", "medium", "high"}
    /\ \A k \in DOMAIN tickets :
          \A s \in {"open", "inprogress", "onhold", "closed"} :
              ENABLED updateStatus(k, s)
    /\ last.op = "updateStatus" => tickets[last.id].status = last.arg

\* a closed ticket was reopened
C5_Witness ==
    /\ last.op = "updateStatus"
    /\ last.prev[1] = "closed"
    /\ last.arg = "open"
    /\ tickets[last.id].status = "open"

\* C6 as stated: after updateStatus(t, s) the stored ticket has status s and an
\* updated_on strictly greater than before.
C6_AsStated ==
    last.op = "updateStatus" =>
        /\ tickets[last.id].status = last.arg
        /\ tickets[last.id].updated_on > last.prev[2]

\* C6 amended: updateStatus(t, s) leaves the stored ticket with status s and with
\* updated_on equal to the clock's value at the update, which is greater than or
\* equal to the value before.
C6_Amended ==
    [][(last'.op = "updateStatus" /\ updateStatus(last'.id, last'.arg)) =>
        /\ tickets'[last'.id].status = last'.arg
        /\ tickets'[last'.id].updated_on = now
        /\ tickets'[last'.id].updated_on >= tickets[last'.id].updated_on]_vars

\* a status was changed after the clock had moved
C6_Witness ==
    /\ last.op = "updateStatus"
    /\ last.arg # last.prev[1]
    /\ tickets[last.id].status = last.arg
    /\ tickets[last.id].updated_on > last.prev[2]

\* the listing holds every stored ticket once
ListsAll(s) ==
    /\ Len(s) = Cardinality(DOMAIN tickets)
    /\ {s[i] : i \in 1..Len(s)} = DOMAIN tickets

\* C7 as stated: the listing is ordered by updated_on descending and, where
\* updated_on is equal, by id descending.
C7_AsStated ==
    last.op = "listTickets" =>
        /\ ListsAll(last.arg)
        /\ \A i, j \in 1..Len(last.arg) : i < j =>
              \/ tickets[last.arg[i]].updated_on > tickets[last.arg[j]].updated_on
              \/ /\ tickets[last.arg[i]].updated_on = tickets[last.arg[j]].updated_on
                 /\ last.arg[i] > last.arg[j]

\* C7 amended: the listing holds all stored tickets ordered by updated_on
\* descending; the order of tickets with equal updated_on is not determined.
C7_Amended ==
    last.op = "listTickets" =>
        /\ ListsAll(last.arg)
        /\ \A i, j \in 1..Len(last.arg) : i < j =>
              tickets[last.arg[i]].updated_on >= tickets[last.arg[j]].updated_on

\* a listing in which two tickets have equal updated_on and the one with the
\* smaller id comes first
C7_Witness ==
    /\ last.op = "listTickets"
    /\ \E i, j \in 1..Len(last.arg) :
          /\ i < j
          /\ tickets[last.arg[i]].updated_on = tickets[last.arg[j]].updated_on
          /\ last.arg[i] < last.arg[j]

\* C8: when the editor has saved its change of status or team and the commenter has
\* stored its comment and called set_ticket_updated_now, both on the same ticket,
\* the stored ticket has the editor's status and team and the comment is stored.
C8_Theorem ==
    (/\ pc["editor"] = "saved"
     /\ pc["commenter"] = "touched"
     /\ mem["editor"].id = mem["commenter"].id) =>
        LET k == mem["editor"].id
        IN /\ k \in DOMAIN tickets
           /\ tickets[k].status = mem["editor"].row.status
           /\ tickets[k].assigned_team = mem["editor"].row.assigned_team
           /\ \E c \in DOMAIN comments : comments[c].ticket = k

\* both are done on the same ticket, and the commenter's instance still holds the
\* status and the team from before the editor's changes
C8_Witness ==
    /\ pc["editor"] = "saved"
    /\ pc["commenter"] = "touched"
    /\ mem["editor"].id = mem["commenter"].id
    /\ mem["commenter"].row.status # mem["editor"].row.status
    /\ mem["commenter"].row.assigned_team # mem["editor"].row.assigned_team

\* the UPDATE of a call of set_ticket_updated_now by the commenter
C9_Write ==
    /\ pc["commenter"] \in {"stamped", "restamped"}
    /\ pc'["commenter"] = "touched"

\* the call changes nothing stored but updated_on of the ticket it is called on
C9_Frame ==
    /\ comments' = comments
    /\ DOMAIN tickets' = DOMAIN tickets
    /\ \A k \in DOMAIN tickets :
          /\ \A f \in TicketFields \ {"updated_on"} :
                tickets'[k][f] = tickets[k][f]
          /\ k # mem["commenter"].id => tickets'[k].updated_on = tickets[k].updated_on

\* C9 as stated: a call of set_ticket_updated_now changes nothing stored but
\* updated_on of the ticket it is called on, whatever the instance holds, and
\* only moves updated_on forward.
C9_AsStated ==
    [][C9_Write =>
        /\ C9_Frame
        /\ \A k \in DOMAIN tickets :
              tickets'[k].updated_on >= tickets[k].updated_on]_vars

\* C9 amended: a call of set_ticket_updated_now changes nothing stored but
\* updated_on of the ticket it is called on, whatever the instance holds; it
\* stores the clock value it read, which is not earlier than the updated_on that
\* was stored when it read the clock (a later stamp written in between is
\* replaced by it).
C9_Amended ==
    [][C9_Write =>
        /\ C9_Frame
        /\ tickets'[mem["commenter"].id].updated_on =
              mem["commenter"].row.updated_on
        /\ mem["commenter"].row.updated_on >= mem["commenter"].seen]_vars

\* a repeated call has just written, on an instance whose status differed from
\* the stored one; it moved updated_on forward, and another ticket is stored
C9_Witness ==
    /\ last.op = "set_ticket_updated_now"
    /\ last.arg[2]
    /\ pc["commenter"] = "touched"
    /\ mem["commenter"].id = last.id
    /\ last.prev[1]
    /\ last.arg[1] > last.prev[2]
    /\ Cardinality(DOMAIN tickets) > 1

\* every stored ticket has a title of 10 to 50 characters
C10_Inv == \A k \in DOMAIN tickets : tickets[k].title \in 10..50

\* a refused creation stores nothing
C10_Refused ==
    (last'.op = "createTicket" /\ ~last'.ok) =>
        /\ tickets' = tickets
        /\ nextTicket' = nextTicket

\* the length of a title as submitted
RawLength(title) == title.pad + title.core

\* C10 as stated: a title shorter than 10 or longer than 50 characters, or a
\* description shorter than 20 characters after tag-stripping, is refused and nothing
\* is stored; every stored title has 10 to 50 characters.
C10_AsStated ==
    /\ []C10_Inv
    /\ [][/\ C10_Refused
          /\ (/\ last'.op = "createTicket"
              /\ \/ RawLength(last'.arg[1]) < 10
                 \/ RawLength(last'.arg[1]) > 50
                 \/ Length(strip_tags(last'.arg[2])) < 20) => ~last'.ok]_vars

\* C10 amended: a title that, with its leading and trailing whitespace removed, is
\* shorter than 10 or longer than 50 characters, or a description shorter than 20
\* characters after tag-stripping, is refused and nothing is stored; every stored title
\* has 10 to 50 characters.
C10_Amended ==
    /\ []C10_Inv
    /\ [][/\ C10_Refused
          /\ (/\ last'.op = "createTicket"
              /\ \/ last'.arg[1].core < 10
                 \/ last'.arg[1].core > 50
                 \/ Length(strip_tags(last'.arg[2])) < 20) => ~last'.ok]_vars

\* a title of 51 characters was refused with a ticket already stored
C10_Witness ==
    /\ last.op = "createTicket"
    /\ ~last.ok
    /\ last.arg[1] = [pad |-> 0, core |-> 51]
    /\ DOMAIN tickets # {}
====
